---- MODULE Spec2Model ----
(***************************************************************************)
(* Find/replace session of the text editor (FindReplaceDialog) over the    *)
(* document held by the editing framework.                                 *)
(*                                                                         *)
(* The document is one paragraph whose inline content is a sequence of     *)
(* tokens: a character, or the inline leaf BR (a hard break), which        *)
(* separates text nodes.  Token i (1-based) lies between the document      *)
(* positions i and i+1, the paragraph's opening token being position 0.    *)
(* The framework's commands are modelled by their effect on that content:  *)
(* setTextSelection clamps a range into the document, insertContent puts   *)
(* plain text in place of the selected range (an empty text deletes it).   *)
(*                                                                         *)
(* A handler runs atomically with the effects of the render it causes.  A  *)
(* pending setTimeout(findMatches, 100) keeps the findMatches of the       *)
(* render that scheduled it, i.e. that render's searchTerm and             *)
(* caseSensitive, and reads the document when it fires.                    *)
(*                                                                         *)
(* Three specifications share the handlers:                                *)
(*   Spec      the whole session, every interleaving of the handlers, the  *)
(*             delayed rescans and edits made in the editor, over small    *)
(*             documents of letters;                                       *)
(*   SpecScan  scan and replace over documents with several text nodes,    *)
(*             regex metacharacters and terms of several characters;       *)
(*   SpecNav   next/previous over the match lists of those documents.      *)
(*                                                                         *)
(* Further specifications, each with the handlers of one part of the       *)
(* editor: SpecKeys (the dialog's keyboard), SpecRuler, SpecTabs and       *)
(* SpecPage (ruler, tab stops, page setup), SpecZoom (zoom and the ruler's *)
(* unit conversion), SpecSave (title and Save), SpecIndent (the Indent     *)
(* extension) and SpecAI (the AI sidebar's transforms).                    *)
(***************************************************************************)
EXTENDS Integers, Sequences, FiniteSets, TLC

\* ---------------------------------------------------------------- bounds
MaxDocLen == 2      \* session: longest inline content of the document
MaxTypedReplLen == 1 \* session: longest replacement typed
MaxScanLen == 3     \* scan: longest inline content of the document scanned first
MaxBuiltLen == 4    \* scan: longest inline content a replace builds
MaxTermLen == 2     \* scan: longest search term
MaxReplLen == 2     \* scan: longest replacement
MaxTimers == 1      \* pending setTimeout(findMatches, 100) callbacks
MaxTabStops == 9    \* ruler: longest list of tab stops a click builds
MaxHandle == 2      \* ruler: the tab-stop handles grabbed are the first ones

\* ---------------------------------------------------------------- alphabet
Chars == {"a", "A", "."}
TypedChars == {"a", "A"}
ReplChars == {"a"}
BR == "BR"
Tokens == Chars \cup {BR}

\* characters escaped by searchTerm.replace(/[.*+?^${}()|[\]\\]/g, '\\$&')
MetaChars == {".", "*", "+", "?", "^", "$", "{", "}", "(", ")", "|", "[", "]", "\\"}

SeqsUpTo(S, n) == UNION {[1..k -> S] : k \in 0..n}

Min(a, b) == IF a < b THEN a ELSE b
Max(a, b) == IF a > b THEN a ELSE b

\* ---------------------------------------------------------------- regex
\* String.prototype.replace with '\\$&': every metacharacter gets a backslash
EscapeRegExpNone(s) == s

RECURSIVE EscapeRegExp(_)
EscapeRegExp(s) ==
  IF s = <<>> THEN <<>>
  ELSE (IF Head(s) \in MetaChars THEN <<"\\", Head(s)>> ELSE <<Head(s)>>)
       \o EscapeRegExp(Tail(s))

\* new RegExp(source): a backslash makes the next character a literal, a
\* bare dot matches any character, anything else is a literal
RECURSIVE CompileRegExp(_)
CompileRegExp(src) ==
  IF src = <<>> THEN <<>>
  ELSE IF Head(src) = "\\" /\ Len(src) >= 2
       THEN <<[kind |-> "lit", ch |-> src[2]]>> \o CompileRegExp(Tail(Tail(src)))
       ELSE IF Head(src) = "."
            THEN <<[kind |-> "any", ch |-> "."]>> \o CompileRegExp(Tail(src))
            ELSE <<[kind |-> "lit", ch |-> Head(src)]>> \o CompileRegExp(Tail(src))

\* the canonicalisation of the 'i' flag (toUpperCase on one character)
Canonicalize(c) == IF c = "a" THEN "A" ELSE c

AtomMatches(atom, c, ignoreCase) ==
  \/ atom.kind = "any"
  \/ IF ignoreCase THEN Canonicalize(atom.ch) = Canonicalize(c) ELSE atom.ch = c

\* does the compiled pattern match text at 0-based index k
MatchesAt(atoms, text, k, ignoreCase) ==
  /\ k + Len(atoms) <= Len(text)
  /\ \A j \in 1..Len(atoms) : AtomMatches(atoms[j], text[k + j], ignoreCase)

\* while ((match = searchRegex.exec(node.text)) !== null): the global regex
\* resumes at lastIndex, the end of the previous match
RECURSIVE ExecLoop(_, _, _, _, _)
ExecLoop(atoms, text, pos, lastIndex, ignoreCase) ==
  IF lastIndex + Len(atoms) > Len(text) THEN <<>>
  ELSE IF MatchesAt(atoms, text, lastIndex, ignoreCase)
       THEN <<[from |-> pos + lastIndex, to |-> pos + lastIndex + Len(atoms)]>>
            \o ExecLoop(atoms, text, pos, lastIndex + Len(atoms), ignoreCase)
       ELSE ExecLoop(atoms, text, pos, lastIndex + 1, ignoreCase)

\* ---------------------------------------------------------------- document
\* doc.descendants: the text nodes in document order, each with its position
RECURSIVE TextNodesFrom(_, _)
TextNodesFrom(d, i) ==
  IF i > Len(d) THEN <<>>
  ELSE IF d[i] = BR THEN TextNodesFrom(d, i + 1)
       ELSE LET stops == {j \in i..Len(d) : d[j] = BR}
                last == IF stops = {} THEN Len(d)
                        ELSE (CHOOSE j \in stops : \A k \in stops : j <= k) - 1
            IN  <<[pos |-> i, text |-> SubSeq(d, i, last)]>> \o TextNodesFrom(d, last + 1)

TextNodes(d) == TextNodesFrom(d, 1)

SearchRegex(term) == CompileRegExp(EscapeRegExp(term))

RECURSIVE ScanNodes(_, _, _)
ScanNodes(nodes, atoms, ignoreCase) ==
  IF nodes = <<>> THEN <<>>
  ELSE ExecLoop(atoms, Head(nodes).text, Head(nodes).pos, 0, ignoreCase)
       \o ScanNodes(Tail(nodes), atoms, ignoreCase)

\* the matches array built by findMatches for a non-empty term
Matches(d, term, cs) == ScanNodes(TextNodes(d), SearchRegex(term), ~cs)

\* Selection.atStart(doc).from and Selection.atEnd(doc).to of the paragraph
MinPos == 1
MaxPos(d) == Len(d) + 1

\* setTextSelection clamps both ends into the document
SetTextSelection(d, from, to) ==
  [from |-> Min(Max(from, MinPos), MaxPos(d)), to |-> Min(Max(to, MinPos), MaxPos(d))]

\* insertContent(text) replaces the selected range by the text
InsertContent(d, sel, text) ==
  SubSeq(d, 1, sel.from - 1) \o text \o SubSeq(d, sel.to, Len(d))


\* ---------------------------------------------------------------- state
VARIABLES
  doc,            \* editor.state.doc: the paragraph's inline content
  selection,      \* editor.state.selection: [from, to]
  open,           \* the dialog's open prop (showFindReplace)
  searchTerm,     \* useState('')
  replaceTerm,    \* useState('')
  results,        \* useState<SearchResult[]>([])
  currentIndex,   \* useState(0)
  caseSensitive,  \* useState(false)
  timers,         \* pending setTimeout(findMatches, 100), oldest first; each
                  \* holds the searchTerm and caseSensitive its closure captured
  op,             \* the handler that ran last (history, for the properties)
  zoom,           \* TextEditor: useState(100), per cent
  pageSize,       \* TextEditor: useState(PAGE_SIZES.letter)
  margins,        \* TextEditor: useState({top: 1, bottom: 1, left: 1, right: 1})
  tabStops,       \* TextEditor: useState([0.5, ..., 4]), offsets from the left margin
  dragging,       \* EditorRuler: 'left' | 'right' | 'tab' | null
  dragTabIndex,   \* EditorRuler: number | null, as <<index>> or <<>>
  build,          \* which TextEditor of the repository runs
  documentTitle,  \* TextEditor: useState('Untitled Document')
  lastSaved,      \* TextEditor: useState<Date | null>(null), as <<date>> or <<>>
  storage,        \* localStorage: the items stored, key |-> value
  selectedText,   \* TextEditor: useState('')
  isGenerating,   \* AISidebar: useState(false)
  transforms,     \* AISidebar: handleTransform calls waiting for their timeout
  indents,        \* the indent attribute of the document's block nodes
  blockRange,     \* the selection in the document of block nodes: [from, to]
  measure         \* the last length the ruler converted: [inches, px, back]

findVars == <<doc, selection, open, searchTerm, replaceTerm, results, currentIndex,
              caseSensitive, timers>>
rulerVars == <<zoom, pageSize, margins, tabStops, dragging, dragTabIndex>>
appVars == <<build, documentTitle, lastSaved, storage, selectedText, isGenerating,
             transforms, indents, blockRange, measure>>
vars == <<doc, selection, open, searchTerm, replaceTerm, results, currentIndex,
          caseSensitive, timers, op, zoom, pageSize, margins, tabStops,
          dragging, dragTabIndex, build, documentTitle, lastSaved, storage,
          selectedText, isGenerating, transforms, indents, blockRange, measure>>

\* session: documents of letters, the Find input empty or holding one letter
Docs == SeqsUpTo(TypedChars, MaxDocLen)
Terms == {<<>>, <<"a">>}
Repls == SeqsUpTo(ReplChars, MaxTypedReplLen)
\* scan: documents with hard breaks and dots, terms of several characters
ScanDocs == SeqsUpTo(Tokens, MaxScanLen)
ScanTerms == SeqsUpTo(Chars, MaxTermLen) \ {<<>>}
ScanRepls == SeqsUpTo(ReplChars, MaxReplLen)

\* history: the handler that ran last; n is the number of matches it saw
\* (for the timer, the length of the term its closure holds) and fresh
\* tells whether a replace saw a match list that was up to date
Op(name, n, fresh) == [name |-> name, n |-> n, fresh |-> fresh]
Other == Op("other", 0, FALSE)

\* highlightMatch: move the selection to the match (the scroll is not state)
HighlightMatch(d, match) == SetTextSelection(d, match.from, match.to)

\* findMatches as created in a render with the given searchTerm and
\* caseSensitive, run on the document d; yields the new session fields
FindMatchesKeepIndex(d, term, cs, idx, sel) ==
  IF term = <<>>
  THEN [results |-> <<>>, currentIndex |-> idx, selection |-> sel]
  ELSE LET matches == Matches(d, term, cs)
       IN  [results |-> matches,
            currentIndex |-> idx,
            selection |-> IF Len(matches) > 0 THEN HighlightMatch(d, matches[1]) ELSE sel]

FindMatchesNoReturn(d, term, cs, idx, sel) ==
  LET matches == IF term = <<>> THEN <<[from |-> MinPos, to |-> MinPos]>>
                 ELSE Matches(d, term, cs)
  IN  [results |-> matches,
       currentIndex |-> IF Len(matches) > 0 THEN 0 ELSE idx,
       selection |-> IF Len(matches) > 0 THEN HighlightMatch(d, matches[1]) ELSE sel]

FindMatches(d, term, cs, idx, sel) ==
  IF term = <<>>
  THEN [results |-> <<>>, currentIndex |-> idx, selection |-> sel]
  ELSE LET matches == Matches(d, term, cs)
       IN  [results |-> matches,
            currentIndex |-> IF Len(matches) > 0 THEN 0 ELSE idx,
            selection |-> IF Len(matches) > 0 THEN HighlightMatch(d, matches[1]) ELSE sel]

\* useEffect(() => { if (open && searchTerm) findMatches() }, [...]) after a
\* render in which open, searchTerm or caseSensitive changed
SearchEffect(isOpen, term, cs) ==
  IF isOpen /\ term # <<>>
  THEN LET r == FindMatches(doc, term, cs, currentIndex, selection)
       IN  /\ results' = r.results
           /\ currentIndex' = r.currentIndex
           /\ selection' = r.selection
  ELSE UNCHANGED <<results, currentIndex, selection>>

\* ---------------------------------------------------------------- ruler
\* Lengths are hundredths of an inch; a pointer offset is in CSS pixels. A
\* length computed from a pointer offset is kept exact, as the fraction
\* num / den of hundredths of an inch.
PAGE_SIZES ==
  [letter    |-> [width |-> 850,  height |-> 1100],
   legal     |-> [width |-> 850,  height |-> 1400],
   a4        |-> [width |-> 827,  height |-> 1169],
   a5        |-> [width |-> 583,  height |-> 827],
   executive |-> [width |-> 725,  height |-> 1050],
   tabloid   |-> [width |-> 1100, height |-> 1700]]

Null == "null"

Rat(h) == [num |-> h, den |-> 1]
RatLess(a, b) == a.num * b.den < b.num * a.den
RatMin(a, b) == IF RatLess(b, a) THEN b ELSE a
RatMax(a, b) == IF RatLess(a, b) THEN b ELSE a
RatSub(a, b) == [num |-> a.num * b.den - b.num * a.den, den |-> a.den * b.den]

\* pxToInches: px / 96 / (zoom / 100), in hundredths of an inch
PxToInches(px, z) == [num |-> px.num * 625, den |-> px.den * 6 * z]

InchesToPxNoZoom(inches, z) == [num |-> inches * 24, den |-> 25]

\* inchesToPx = inches * 96 * (zoom / 100), of a length in hundredths of an
\* inch: inches / 100 * 96 * z / 100 pixels
InchesToPx(inches, z) == [num |-> inches * 6 * z, den |-> 625]

RatEq(a, b) == a.num * b.den = b.num * a.den
\* inchesToPx(inches) = inches * 96 * (zoom / 100); the pointer is over the
\* ruler element, whose width is inchesToPx(pageWidth)
OverRuler(px, z, pageWidth) == px >= 0 /\ px * 625 <= pageWidth * 6 * z

SnapQuarterDown(x) == 25 * (x.num \div (25 * x.den))

\* Math.round(x * 4) / 4: Math.round is floor(y + 0.5)
SnapQuarter(x) == 25 * ((2 * x.num + 25 * x.den) \div (50 * x.den))

\* the first place at which the offset t goes into the ascending list
RECURSIVE InsertSorted(_, _)
InsertSorted(stops, t) ==
  IF stops = <<>> THEN <<t>>
  ELSE IF t < Head(stops) THEN <<t>> \o stops
  ELSE <<Head(stops)>> \o InsertSorted(Tail(stops), t)

RECURSIVE SortAscending(_)
SortAscending(stops) ==
  IF stops = <<>> THEN <<>>
  ELSE InsertSorted(SortAscending(SubSeq(stops, 1, Len(stops) - 1)), stops[Len(stops)])

HandleTabStopAddUnsorted(prev, position) == Append(prev, position)

\* setTabStops(prev => [...prev, position].sort((a, b) => a - b))
HandleTabStopAdd(prev, position) == SortAscending(Append(prev, position))

Abs(x) == IF x < 0 THEN -x ELSE x

\* tabStops[index]: <<value>>, or <<>> for undefined past the end
TabStopAt(stops, index) ==
  IF index < Len(stops) THEN <<stops[index + 1]>> ELSE <<>>

\* setTabStops(prev => prev.filter(t => Math.abs(t - position) > 0.05)); with
\* position undefined the difference is NaN and no element passes
HandleTabStopRemove(prev, position) ==
  IF position = <<>> THEN <<>>
  ELSE SelectSeq(prev, LAMBDA t : Abs(t - position[1]) > 5)

\* TextEditor's state after construction
RulerInit ==
  /\ zoom = 100
  /\ pageSize = PAGE_SIZES.letter
  /\ margins = [top |-> 100, bottom |-> 100, left |-> 100, right |-> 100]
  /\ tabStops = <<50, 100, 150, 200, 250, 300, 350, 400>>
  /\ dragging = Null
  /\ dragTabIndex = <<>>

\* The two TextEditor components of the repository that have a Save button:
\* the one of part_004 (EditorHeader, handleSave only toasts) and the one of
\* part_005 (handleSave writes localStorage).
Builds == {"part_004", "part_005"}

\* localStorage before anything is stored.
NoItems == [k \in {} |-> <<>>]

\* Block positions of the document the Indent extension works on.
NoBlockRange == [from |-> 1, to |-> 1]

\* State of the header, the AI sidebar, the Indent attributes and the ruler's
\* conversion after construction.
AppState(b) ==
  /\ build = b
  /\ documentTitle = "Untitled Document"
  /\ lastSaved = <<>>
  /\ storage = NoItems
  /\ selectedText = <<>>
  /\ isGenerating = FALSE
  /\ transforms = <<>>
  /\ indents = <<0, 0, 0, 0>>
  /\ blockRange = NoBlockRange
  /\ measure = [inches |-> 0, px |-> Rat(0), back |-> Rat(0)]

AppInit == AppState("part_004")

Init ==
  /\ RulerInit
  /\ AppInit
  /\ doc \in Docs
  /\ selection = [from |-> MinPos, to |-> MinPos]
  /\ open = FALSE
  /\ searchTerm = <<>>
  /\ replaceTerm = <<>>
  /\ results = <<>>
  /\ currentIndex = 0
  /\ caseSensitive = FALSE
  /\ timers = <<>>
  /\ op = Other

\* handleOpenFindReplace: setShowFindReplace(true)
OpenDialog ==
  /\ ~open
  /\ open' = TRUE
  /\ SearchEffect(TRUE, searchTerm, caseSensitive)
  /\ op' = Other
  /\ UNCHANGED <<doc, searchTerm, replaceTerm, caseSensitive, timers>>
  /\ UNCHANGED rulerVars
  /\ UNCHANGED appVars

\* onOpenChange(false), then the reset effect of the closed dialog
CloseDialog ==
  /\ open
  /\ open' = FALSE
  /\ searchTerm' = <<>>
  /\ replaceTerm' = <<>>
  /\ results' = <<>>
  /\ currentIndex' = 0
  /\ op' = Other
  /\ UNCHANGED <<doc, selection, caseSensitive, timers>>
  /\ UNCHANGED rulerVars
  /\ UNCHANGED appVars

\* onChange of the Find input, then the search effect
SetSearchTerm(t) ==
  /\ open
  /\ t # searchTerm
  /\ searchTerm' = t
  /\ SearchEffect(open, t, caseSensitive)
  /\ op' = Other
  /\ UNCHANGED <<doc, open, replaceTerm, caseSensitive, timers>>
  /\ UNCHANGED rulerVars
  /\ UNCHANGED appVars

\* onChange of the Replace input
SetReplaceTerm(r) ==
  /\ open
  /\ r # replaceTerm
  /\ replaceTerm' = r
  /\ op' = Other
  /\ UNCHANGED <<doc, selection, open, searchTerm, results, currentIndex,
                 caseSensitive, timers>>
  /\ UNCHANGED rulerVars
  /\ UNCHANGED appVars

\* onChange of the Match case checkbox, then the search effect
ToggleCase ==
  /\ open
  /\ caseSensitive' = ~caseSensitive
  /\ SearchEffect(open, searchTerm, ~caseSensitive)
  /\ op' = Other
  /\ UNCHANGED <<doc, open, searchTerm, replaceTerm, timers>>
  /\ UNCHANGED rulerVars
  /\ UNCHANGED appVars

NextIndexNoWrap(i, n) == IF i + 1 < n THEN i + 1 ELSE i

NextIndex(i, n) == (i + 1) % n
PrevIndex(i, n) == (i - 1 + n) % n

GoToNext ==
  /\ open
  /\ IF Len(results) = 0
     THEN UNCHANGED <<currentIndex, selection>>
     ELSE LET nextIndex == NextIndex(currentIndex, Len(results))
          IN  /\ currentIndex' = nextIndex
              /\ selection' = HighlightMatch(doc, results[nextIndex + 1])
  /\ op' = Op("goToNext", Len(results), FALSE)
  /\ UNCHANGED <<doc, open, searchTerm, replaceTerm, results, caseSensitive, timers>>
  /\ UNCHANGED rulerVars
  /\ UNCHANGED appVars

GoToPrevious ==
  /\ open
  /\ IF Len(results) = 0
     THEN UNCHANGED <<currentIndex, selection>>
     ELSE LET prevIndex == PrevIndex(currentIndex, Len(results))
          IN  /\ currentIndex' = prevIndex
              /\ selection' = HighlightMatch(doc, results[prevIndex + 1])
  /\ op' = Op("goToPrevious", Len(results), FALSE)
  /\ UNCHANGED <<doc, open, searchTerm, replaceTerm, results, caseSensitive, timers>>
  /\ UNCHANGED rulerVars
  /\ UNCHANGED appVars

\* does the match list equal a scan of the document for the session's term
Fresh == results = (IF searchTerm = <<>> THEN <<>>
                    ELSE Matches(doc, searchTerm, caseSensitive))

\* .setTextSelection({from, to}).insertContent(replaceTerm).run(): the new
\* document and the caret left behind the inserted text
ReplaceMatch(d, match, text) ==
  LET sel == SetTextSelection(d, match.from, match.to)
  IN  [doc |-> InsertContent(d, sel, text),
       selection |-> [from |-> sel.from + Len(text), to |-> sel.from + Len(text)]]

\* the findMatches of the current render, as setTimeout keeps it
ThisClosure == [term |-> searchTerm, cs |-> caseSensitive]

CurrentMatchFirst(rs, idx) == rs[1]

\* const match = results[currentIndex]
CurrentMatch(rs, idx) == rs[idx + 1]

\* cap: the longest document the run lets a replace build
ReplaceOne(cap) ==
  /\ open
  /\ IF Len(results) = 0
     THEN /\ UNCHANGED <<doc, selection, timers>>
          /\ op' = Op("replaceOne", 0, Fresh)
     ELSE LET r == ReplaceMatch(doc, CurrentMatch(results, currentIndex), replaceTerm)
          IN  /\ Len(r.doc) <= cap
              /\ Len(timers) < MaxTimers
              /\ doc' = r.doc
              /\ selection' = r.selection
              /\ timers' = Append(timers, ThisClosure)
              /\ op' = Op("replaceOne", 1, Fresh)
  /\ UNCHANGED <<open, searchTerm, replaceTerm, results, currentIndex, caseSensitive>>
  /\ UNCHANGED rulerVars
  /\ UNCHANGED appVars

SortDescendingNone(rs) == rs

\* [...results].sort((a, b) => b.from - a.from)
RECURSIVE SortDescending(_)
SortDescending(rs) ==
  IF rs = <<>> THEN <<>>
  ELSE LET k == CHOOSE i \in 1..Len(rs) :
                  /\ \A j \in 1..Len(rs) : rs[j].from <= rs[i].from
                  /\ \A j \in 1..(i - 1) : rs[j].from < rs[i].from
       IN  <<rs[k]>> \o SortDescending(SubSeq(rs, 1, k - 1) \o SubSeq(rs, k + 1, Len(rs)))

\* sortedResults.forEach(match => chain().setTextSelection().insertContent().run())
RECURSIVE ReplaceEach(_, _, _, _)
ReplaceEach(d, sel, sorted, text) ==
  IF sorted = <<>> THEN [doc |-> d, selection |-> sel]
  ELSE LET r == ReplaceMatch(d, Head(sorted), text)
       IN  ReplaceEach(r.doc, r.selection, Tail(sorted), text)

ReplaceAllUnguarded(cap) ==
  /\ open
  /\ LET r == ReplaceEach(doc, selection, SortDescending(results), replaceTerm)
     IN  /\ Len(r.doc) <= cap
         /\ Len(timers) < MaxTimers
         /\ doc' = r.doc
         /\ selection' = r.selection
         /\ timers' = Append(timers, ThisClosure)
         /\ op' = Op("replaceAll", Len(results), Fresh)
  /\ UNCHANGED <<open, searchTerm, replaceTerm, results, currentIndex, caseSensitive>>
  /\ UNCHANGED rulerVars
  /\ UNCHANGED appVars

ReplaceAll(cap) ==
  /\ open
  /\ IF Len(results) = 0
     THEN /\ UNCHANGED <<doc, selection, timers>>
          /\ op' = Op("replaceAll", 0, Fresh)
     ELSE LET r == ReplaceEach(doc, selection, SortDescending(results), replaceTerm)
          IN  /\ Len(r.doc) <= cap
              /\ Len(timers) < MaxTimers
              /\ doc' = r.doc
              /\ selection' = r.selection
              /\ timers' = Append(timers, ThisClosure)
              /\ op' = Op("replaceAll", Len(results), Fresh)
  /\ UNCHANGED <<open, searchTerm, replaceTerm, results, currentIndex, caseSensitive>>
  /\ UNCHANGED rulerVars
  /\ UNCHANGED appVars

\* the oldest pending timeout fires: findMatches of the render that set it
TimerFire ==
  /\ timers # <<>>
  /\ LET c == Head(timers)
         r == FindMatches(doc, c.term, c.cs, currentIndex, selection)
     IN  /\ results' = r.results
         /\ currentIndex' = r.currentIndex
         /\ selection' = r.selection
         /\ op' = Op("timer", Len(c.term), FALSE)
  /\ timers' = Tail(timers)
  /\ UNCHANGED <<doc, open, searchTerm, replaceTerm, caseSensitive>>
  /\ UNCHANGED rulerVars
  /\ UNCHANGED appVars

\* an edit of the document that does not come from the dialog (typing in
\* the editor): one token inserted at, or deleted after, a position
UserEdit ==
  /\ \E p \in MinPos..MaxPos(doc) :
       \/ \E t \in TypedChars :
            /\ Len(doc) < MaxDocLen
            /\ doc' = SubSeq(doc, 1, p - 1) \o <<t>> \o SubSeq(doc, p, Len(doc))
            /\ selection' = [from |-> p + 1, to |-> p + 1]
       \/ /\ p < MaxPos(doc)
          /\ doc' = SubSeq(doc, 1, p - 1) \o SubSeq(doc, p + 1, Len(doc))
          /\ selection' = [from |-> p, to |-> p]
  /\ op' = Other
  /\ UNCHANGED <<open, searchTerm, replaceTerm, results, currentIndex,
                 caseSensitive, timers>>
  /\ UNCHANGED rulerVars
  /\ UNCHANGED appVars

Next ==
  \/ OpenDialog
  \/ CloseDialog
  \/ \E t \in Terms : SetSearchTerm(t)
  \/ \E r \in Repls : SetReplaceTerm(r)
  \/ ToggleCase
  \/ GoToNext
  \/ GoToPrevious
  \/ ReplaceOne(MaxDocLen)
  \/ ReplaceAll(MaxDocLen)
  \/ TimerFire
  \/ UserEdit

Spec == Init /\ [][Next]_vars

\* the dialog with a term, a replacement and a case flag entered over a
\* document: the state after the search effect has scanned it
InitScan ==
  /\ RulerInit
  /\ AppInit
  /\ doc \in ScanDocs
  /\ searchTerm \in ScanTerms
  /\ replaceTerm \in ScanRepls
  /\ caseSensitive \in BOOLEAN
  /\ open = TRUE
  /\ LET r == FindMatches(doc, searchTerm, caseSensitive, 0,
                          [from |-> MinPos, to |-> MinPos])
     IN  /\ results = r.results
         /\ currentIndex = r.currentIndex
         /\ selection = r.selection
  /\ timers = <<>>
  /\ op = Other

NextScan ==
  \/ ReplaceAll(MaxBuiltLen)
  \/ ReplaceOne(MaxBuiltLen)
  \/ TimerFire

SpecScan == InitScan /\ [][NextScan]_vars

NextNav ==
  \/ GoToNext
  \/ GoToPrevious

SpecNav == InitScan /\ [][NextNav]_vars

\* ---------------------------------------------------------------- keyboard
Keys == {"Enter", "Escape"}

\* history of a keydown: the key, with the Shift flag where the handler reads it
KeyName(key, shiftKey) == IF key = "Enter" /\ shiftKey THEN "Shift+Enter" ELSE key

HandleKeyDownUnguarded(key, shiftKey) ==
  /\ IF key = "Enter" /\ ~shiftKey
     THEN /\ IF Len(results) = 0
             THEN UNCHANGED <<currentIndex, selection>>
             ELSE LET nextIndex == NextIndex(currentIndex, Len(results))
                  IN  /\ currentIndex' = nextIndex
                      /\ selection' = HighlightMatch(doc, results[nextIndex + 1])
          /\ UNCHANGED <<open, searchTerm, replaceTerm, results>>
     ELSE IF key = "Enter" /\ shiftKey
     THEN /\ IF Len(results) = 0
             THEN UNCHANGED <<currentIndex, selection>>
             ELSE LET prevIndex == PrevIndex(currentIndex, Len(results))
                  IN  /\ currentIndex' = prevIndex
                      /\ selection' = HighlightMatch(doc, results[prevIndex + 1])
          /\ UNCHANGED <<open, searchTerm, replaceTerm, results>>
     ELSE IF key = "Escape"
     THEN /\ open' = FALSE
          /\ searchTerm' = <<>>
          /\ replaceTerm' = <<>>
          /\ results' = <<>>
          /\ currentIndex' = 0
          /\ UNCHANGED selection
     ELSE UNCHANGED <<open, searchTerm, replaceTerm, results, currentIndex, selection>>
  /\ op' = Op(KeyName(key, shiftKey), Len(results), FALSE)
  /\ UNCHANGED <<doc, caseSensitive, timers>>
  /\ UNCHANGED rulerVars
  /\ UNCHANGED appVars

\* the window's keydown listener: if (!open) return; Enter is goToNext(),
\* Shift+Enter goToPrevious(), Escape onOpenChange(false) with the reset
\* effect of the closed dialog
HandleKeyDown(key, shiftKey) ==
  /\ IF ~open
     THEN UNCHANGED <<open, searchTerm, replaceTerm, results, currentIndex, selection>>
     ELSE IF key = "Enter" /\ ~shiftKey
     THEN /\ IF Len(results) = 0
             THEN UNCHANGED <<currentIndex, selection>>
             ELSE LET nextIndex == NextIndex(currentIndex, Len(results))
                  IN  /\ currentIndex' = nextIndex
                      /\ selection' = HighlightMatch(doc, results[nextIndex + 1])
          /\ UNCHANGED <<open, searchTerm, replaceTerm, results>>
     ELSE IF key = "Enter" /\ shiftKey
     THEN /\ IF Len(results) = 0
             THEN UNCHANGED <<currentIndex, selection>>
             ELSE LET prevIndex == PrevIndex(currentIndex, Len(results))
                  IN  /\ currentIndex' = prevIndex
                      /\ selection' = HighlightMatch(doc, results[prevIndex + 1])
          /\ UNCHANGED <<open, searchTerm, replaceTerm, results>>
     ELSE IF key = "Escape"
     THEN /\ open' = FALSE
          /\ searchTerm' = <<>>
          /\ replaceTerm' = <<>>
          /\ results' = <<>>
          /\ currentIndex' = 0
          /\ UNCHANGED selection
     ELSE UNCHANGED <<open, searchTerm, replaceTerm, results, currentIndex, selection>>
  /\ op' = Op(KeyName(key, shiftKey), Len(results), FALSE)
  /\ UNCHANGED <<doc, caseSensitive, timers>>
  /\ UNCHANGED rulerVars
  /\ UNCHANGED appVars

\* the session driven from the keyboard: the dialog is opened, a term is
\* typed, matches are replaced (each replace leaves a rescan pending), and
\* navigation and closing are done with the keys
NextKeys ==
  \/ OpenDialog
  \/ \E t \in Terms : SetSearchTerm(t)
  \/ ReplaceOne(MaxDocLen)
  \/ TimerFire
  \/ \E key \in Keys, shiftKey \in BOOLEAN : HandleKeyDown(key, shiftKey)

SpecKeys == Init /\ [][NextKeys]_vars

\* ---------------------------------------------------------------- ruler events
\* pointer offsets from the ruler's left edge, in CSS pixels
PointerXs == {48, 100, 229, 264, 800, 1000}
\* the zoom values asked for from the toolbar
ZoomInputs == {40, 100}
\* the entries picked in the Page Setup dialog
PageSizeKeys == {"letter", "a4", "a5"}
Orientations == {"portrait", "landscape"}
\* the values typed into its Left and Right margin fields
MarginInputs == {110, 300}

\* pageWidth - leftMargin - rightMargin
ContentWidth == pageSize.width - margins.left - margins.right

\* posInches > 0 && posInches < pageWidth - leftMargin - rightMargin
InContentArea(posInches) ==
  /\ posInches.num > 0
  /\ RatLess(posInches, Rat(ContentWidth))

HandleRulerClickUnguarded(px) ==
  /\ OverRuler(px, zoom, pageSize.width)
  /\ LET posInches == RatSub(PxToInches(Rat(px), zoom), Rat(margins.left))
     IN  IF InContentArea(posInches)
         THEN /\ Len(tabStops) < MaxTabStops
              /\ tabStops' = HandleTabStopAdd(tabStops, SnapQuarter(posInches))
         ELSE UNCHANGED tabStops
  /\ op' = Op("rulerClick", 0, FALSE)
  /\ UNCHANGED <<zoom, pageSize, margins, dragging, dragTabIndex>>
  /\ UNCHANGED findVars
  /\ UNCHANGED appVars

\* onClick of the ruler
HandleRulerClick(px) ==
  /\ OverRuler(px, zoom, pageSize.width)
  /\ IF dragging # Null
     THEN UNCHANGED tabStops
     ELSE LET posInches == RatSub(PxToInches(Rat(px), zoom), Rat(margins.left))
          IN  IF InContentArea(posInches)
              THEN /\ Len(tabStops) < MaxTabStops
                   /\ tabStops' = HandleTabStopAdd(tabStops, SnapQuarter(posInches))
              ELSE UNCHANGED tabStops
  /\ op' = Op("rulerClick", 0, FALSE)
  /\ UNCHANGED <<zoom, pageSize, margins, dragging, dragTabIndex>>
  /\ UNCHANGED findVars
  /\ UNCHANGED appVars

\* onDoubleClick of the handle of tabStops[index]
HandleTabDoubleClick(index) ==
  /\ index < Len(tabStops)
  /\ tabStops' = HandleTabStopRemove(tabStops, TabStopAt(tabStops, index))
  /\ op' = Op("tabDoubleClick", 0, FALSE)
  /\ UNCHANGED <<zoom, pageSize, margins, dragging, dragTabIndex>>
  /\ UNCHANGED findVars
  /\ UNCHANGED appVars

\* onMouseDown of a margin handle
HandleMarginDragStart(side) ==
  /\ dragging' = side
  /\ op' = Op("marginDragStart", 0, FALSE)
  /\ UNCHANGED <<zoom, pageSize, margins, tabStops, dragTabIndex>>
  /\ UNCHANGED findVars
  /\ UNCHANGED appVars

\* onMouseDown of the handle of tabStops[index]
HandleTabDragStart(index) ==
  /\ index < Len(tabStops)
  /\ dragging' = "tab"
  /\ dragTabIndex' = <<index>>
  /\ op' = Op("tabDragStart", 0, FALSE)
  /\ UNCHANGED <<zoom, pageSize, margins, tabStops>>
  /\ UNCHANGED findVars
  /\ UNCHANGED appVars

\* onMouseMove of the ruler
HandleMouseMove(px) ==
  /\ OverRuler(px, zoom, pageSize.width)
  /\ LET posInches == PxToInches(Rat(px), zoom)
     IN  IF dragging = "left"
         THEN LET newLeft == RatMax(Rat(25), RatMin(Rat(pageSize.width - margins.right - 100),
                                                   posInches))
              IN  /\ margins' = [margins EXCEPT !.left = SnapQuarter(newLeft)]
                  /\ UNCHANGED tabStops
         ELSE IF dragging = "right"
         THEN LET newRight == RatMax(Rat(25), RatMin(Rat(pageSize.width - margins.left - 100),
                                                    RatSub(Rat(pageSize.width), posInches)))
              IN  /\ margins' = [margins EXCEPT !.right = SnapQuarter(newRight)]
                  /\ UNCHANGED tabStops
         ELSE IF dragging = "tab" /\ dragTabIndex # <<>>
         THEN LET newPos == RatSub(posInches, Rat(margins.left))
              IN  /\ IF InContentArea(newPos)
                     THEN tabStops' = HandleTabStopAdd(
                            HandleTabStopRemove(tabStops, TabStopAt(tabStops, dragTabIndex[1])),
                            SnapQuarter(newPos))
                     ELSE UNCHANGED tabStops
                  /\ UNCHANGED margins
         ELSE UNCHANGED <<margins, tabStops>>
  /\ op' = Op("mouseMove", 0, FALSE)
  /\ UNCHANGED <<zoom, pageSize, dragging, dragTabIndex>>
  /\ UNCHANGED findVars
  /\ UNCHANGED appVars

HandleMouseUpKeepIndex(event) ==
  /\ dragging' = Null
  /\ op' = Op(event, 0, FALSE)
  /\ UNCHANGED <<zoom, pageSize, margins, tabStops, dragTabIndex>>
  /\ UNCHANGED findVars
  /\ UNCHANGED appVars

\* onMouseUp and onMouseLeave of the ruler
HandleMouseUp(event) ==
  /\ dragging' = Null
  /\ dragTabIndex' = <<>>
  /\ op' = Op(event, 0, FALSE)
  /\ UNCHANGED <<zoom, pageSize, margins, tabStops>>
  /\ UNCHANGED findVars
  /\ UNCHANGED appVars

HandleZoomChangeNoFloor(newZoom) ==
  /\ zoom' = Min(200, newZoom)
  /\ op' = Op("zoomChange", newZoom, FALSE)
  /\ UNCHANGED <<pageSize, margins, tabStops, dragging, dragTabIndex>>
  /\ UNCHANGED findVars
  /\ UNCHANGED appVars

\* setZoom(Math.min(200, Math.max(50, newZoom)))
HandleZoomChange(newZoom) ==
  /\ zoom' = Min(200, Max(50, newZoom))
  /\ op' = Op("zoomChange", newZoom, FALSE)
  /\ UNCHANGED <<pageSize, margins, tabStops, dragging, dragTabIndex>>
  /\ UNCHANGED findVars
  /\ UNCHANGED appVars

\* Apply of the Page Setup dialog, with the page size, the orientation and
\* the margins its fields hold
HandleApply(localPageSize, orientation, localMargins) ==
  /\ pageSize' =
       IF orientation = "landscape" /\ localPageSize.width < localPageSize.height
       THEN [width |-> localPageSize.height, height |-> localPageSize.width]
       ELSE IF orientation = "portrait" /\ localPageSize.width > localPageSize.height
       THEN [width |-> localPageSize.height, height |-> localPageSize.width]
       ELSE localPageSize
  /\ margins' = localMargins
  /\ op' = Op("pageSetupApply", 0, FALSE)
  /\ UNCHANGED <<zoom, tabStops, dragging, dragTabIndex>>
  /\ UNCHANGED findVars
  /\ UNCHANGED appVars

\* the editor with an empty document and the dialog closed
InitRuler ==
  /\ RulerInit
  /\ AppInit
  /\ doc = <<>>
  /\ selection = [from |-> MinPos, to |-> MinPos]
  /\ open = FALSE
  /\ searchTerm = <<>>
  /\ replaceTerm = <<>>
  /\ results = <<>>
  /\ currentIndex = 0
  /\ caseSensitive = FALSE
  /\ timers = <<>>
  /\ op = Other

\* the drag gestures on the ruler of the Letter page at 100 per cent: the
\* margin handles and the first tab-stop handles are grabbed, the pointer
\* moves, clicks, is released or leaves, at one offset inside the initial
\* content area and one in the right margin
DragXs == {229, 800}

NextRuler ==
  \/ \E px \in DragXs : HandleRulerClick(px)
  \/ \E side \in {"left", "right"} : HandleMarginDragStart(side)
  \/ \E index \in 0..(MaxHandle - 1) : HandleTabDragStart(index)
  \/ \E px \in DragXs : HandleMouseMove(px)
  \/ \E event \in {"mouseUp", "mouseLeave"} : HandleMouseUp(event)

SpecRuler == InitRuler /\ [][NextRuler]_vars

\* the tab stops of the Letter page at 100 per cent with 1 in margins
NextTabs ==
  \/ \E px \in PointerXs : HandleRulerClick(px)
  \/ \E index \in 0..(MaxHandle - 1) : HandleTabDoubleClick(index)
  \/ \E index \in 0..(MaxHandle - 1) : HandleTabDragStart(index)
  \/ \E px \in PointerXs : HandleMouseMove(px)
  \/ \E event \in {"mouseUp", "mouseLeave"} : HandleMouseUp(event)

SpecTabs == InitRuler /\ [][NextTabs]_vars

\* the page: Page Setup, zoom and drags of the margin handles
NextPage ==
  \/ \E side \in {"left", "right"} : HandleMarginDragStart(side)
  \/ \E px \in PointerXs : HandleMouseMove(px)
  \/ \E event \in {"mouseUp", "mouseLeave"} : HandleMouseUp(event)
  \/ \E newZoom \in ZoomInputs : HandleZoomChange(newZoom)
  \/ \E key \in PageSizeKeys, orientation \in Orientations,
        left \in MarginInputs \cup {margins.left},
        right \in MarginInputs \cup {margins.right} :
        HandleApply(PAGE_SIZES[key], orientation,
                    [margins EXCEPT !.left = left, !.right = right])

SpecPage == InitRuler /\ [][NextPage]_vars

\* ------------------------------------------------------- zoom and units
\* the presets of the View > Zoom menu
ZoomPresets == {50, 75, 100, 125, 150, 200}

\* values no control of the toolbar sends
ZoomOutOfRange == {40, 250}

\* lengths the ruler converts, in hundredths of an inch: the origin, a minor
\* mark, the initial margin, a length that is no multiple of a mark, the
\* page width
MeasureInputs == {0, 12, 100, 333, pageSize.width}

\* the - button of the toolbar, disabled at zoom <= 50
ZoomOut ==
  /\ zoom > 50
  /\ HandleZoomChange(zoom - 10)

\* the + button of the toolbar, disabled at zoom >= 200
ZoomIn ==
  /\ zoom < 200
  /\ HandleZoomChange(zoom + 10)

\* a render of the ruler at the current zoom places a length given in inches
\* (inchesToPx) and a handler reads the same offset back (pxToInches)
Measure(inches) ==
  /\ inches >= 0
  /\ inches <= pageSize.width
  /\ measure' = [inches |-> inches,
                 px |-> InchesToPx(inches, zoom),
                 back |-> PxToInches(InchesToPx(inches, zoom), zoom)]
  /\ op' = Op("measure", zoom, FALSE)
  /\ UNCHANGED rulerVars
  /\ UNCHANGED findVars
  /\ UNCHANGED <<build, documentTitle, lastSaved, storage, selectedText, isGenerating,
                 transforms, indents, blockRange>>

NextZoom ==
  \/ \E newZoom \in ZoomPresets \cup ZoomOutOfRange : HandleZoomChange(newZoom)
  \/ ZoomOut
  \/ ZoomIn
  \/ \E inches \in MeasureInputs : Measure(inches)

SpecZoom == InitRuler /\ [][NextZoom]_vars

\* ------------------------------------------------------------------ save
\* titles typed in the header's title input
Titles == {"Untitled Document", "Notes", ""}

\* values of new Date().toISOString() at the moment of a Save
SaveTimes == {"2024-01-01T00:00:00.000Z", "2024-01-01T00:00:01.000Z"}

StorageKey == "text-editor-document"

\* editor.getHTML() of the one-paragraph document: the paragraph's tags
\* around its inline content, a hard break serialised as <br>
RECURSIVE InlineHTML(_)
InlineHTML(d) ==
  IF d = <<>> THEN <<>>
  ELSE <<IF Head(d) = BR THEN "<br>" ELSE Head(d)>> \o InlineHTML(Tail(d))

GetHTML(d) == <<"<p>">> \o InlineHTML(d) \o <<"</p>">>

\* JSON.stringify of {title, html, savedAt}: the members in insertion order
JSONStringify(content) ==
  <<<<"title", content.title>>, <<"html", content.html>>, <<"savedAt", content.savedAt>>>>

\* JSON.parse of such a text
JSONParse(text) ==
  [m \in {text[i][1] : i \in 1..Len(text)} |->
     (CHOOSE i \in 1..Len(text) : text[i][1] = m /\ \A j \in (i + 1)..Len(text) : text[j][1] # m)]

JSONMember(text, m) == text[JSONParse(text)[m]][2]

\* localStorage.setItem(key, value)
SetItem(items, key, value) ==
  [k \in DOMAIN items \cup {key} |-> IF k = key THEN value ELSE items[k]]

\* onChange of the title input
SetDocumentTitle(title) ==
  /\ title # documentTitle
  /\ documentTitle' = title
  /\ op' = Op("title", 0, FALSE)
  /\ UNCHANGED findVars
  /\ UNCHANGED rulerVars
  /\ UNCHANGED <<build, lastSaved, storage, selectedText, isGenerating, transforms,
                 indents, blockRange, measure>>

\* onClick of the Save button: handleSave of the component that runs
HandleSave(now) ==
  /\ IF build = "part_005"
     THEN /\ storage' = SetItem(storage, StorageKey,
                                JSONStringify([title |-> documentTitle,
                                               html |-> GetHTML(doc),
                                               savedAt |-> now]))
          /\ lastSaved' = <<now>>
     ELSE UNCHANGED <<storage, lastSaved>>
  /\ op' = Op("save", 0, FALSE)
  /\ UNCHANGED findVars
  /\ UNCHANGED rulerVars
  /\ UNCHANGED <<build, documentTitle, selectedText, isGenerating, transforms,
                 indents, blockRange, measure>>

InitSave ==
  /\ RulerInit
  /\ \E b \in Builds : AppState(b)
  /\ doc \in Docs
  /\ selection = [from |-> MinPos, to |-> MinPos]
  /\ open = FALSE
  /\ searchTerm = <<>>
  /\ replaceTerm = <<>>
  /\ results = <<>>
  /\ currentIndex = 0
  /\ caseSensitive = FALSE
  /\ timers = <<>>
  /\ op = Other

NextSave ==
  \/ UserEdit
  \/ \E title \in Titles : SetDocumentTitle(title)
  \/ \E now \in SaveTimes : HandleSave(now)

SpecSave == InitSave /\ [][NextSave]_vars

\* ---------------------------------------------------------------- indent
\* The Indent extension works on the block structure of a document.  Here
\* that document is fixed: a paragraph "ab", a heading "c" and a bullet list
\* of one item holding a paragraph "d".  A node is a record; id is the index
\* of its indent attribute in indents (0 for a node without one).  Positions
\* are the framework's: a node that is not text takes one position for its
\* opening and one for its closing token.
IndentTypes == {"paragraph", "heading", "listItem"}
MinIndent == 0
MaxIndent == 8

TextNode(n) == [id |-> 0, type |-> "text", size |-> n, content |-> <<>>]
BlockNode(id, type, content) == [id |-> id, type |-> type, size |-> 0, content |-> content]

BlockDoc ==
  <<BlockNode(1, "paragraph", <<TextNode(2)>>),
    BlockNode(2, "heading", <<TextNode(1)>>),
    BlockNode(0, "bulletList",
      <<BlockNode(3, "listItem", <<BlockNode(4, "paragraph", <<TextNode(1)>>)>>)>>)>>

RECURSIVE NodeSize(_)
RECURSIVE ContentSize(_)
ContentSize(content) ==
  IF content = <<>> THEN 0
  ELSE NodeSize(Head(content)) + ContentSize(Tail(content))

NodeSize(node) ==
  IF node.type = "text" THEN node.size ELSE 2 + ContentSize(node.content)

\* Fragment.nodesBetween(from, to, f, nodeStart): the nodes f is called
\* with, from child i at offset pos on; f never returns false here
RECURSIVE NodesBetweenFrom(_, _, _, _, _, _)
NodesBetweenFrom(content, i, pos, from, to, nodeStart) ==
  IF pos >= to \/ i > Len(content) THEN {}
  ELSE LET child == content[i]
           end == pos + NodeSize(child)
           start == pos + 1
           inner == ContentSize(child.content)
       IN  (IF end > from
            THEN {[id |-> child.id, type |-> child.type, pos |-> nodeStart + pos]}
                 \cup (IF inner > 0
                       THEN NodesBetweenFrom(child.content, 1, 0, Max(0, from - start),
                                             Min(inner, to - start), nodeStart + start)
                       ELSE {})
            ELSE {})
           \cup NodesBetweenFrom(content, i + 1, end, from, to, nodeStart)

\* state.doc.nodesBetween(from, to, f)
NodesBetween(from, to) == NodesBetweenFrom(BlockDoc, 1, 0, from, to, 0)

\* the nodes of the selection that carry the indent attribute
IndentTargets == {n.id : n \in {m \in NodesBetween(blockRange.from, blockRange.to) :
                                  m.type \in IndentTypes}}

\* selections of the document: the caret in the first paragraph, text from
\* the first paragraph into the heading, text from the heading into the
\* list, text in the list's paragraph, the caret at the end of the first
\* paragraph, and the whole document (select all)
BlockRanges ==
  {[from |-> 1, to |-> 1], [from |-> 2, to |-> 5], [from |-> 6, to |-> 10],
   [from |-> 10, to |-> 11], [from |-> 3, to |-> 3],
   [from |-> 0, to |-> ContentSize(BlockDoc)]}

\* a selection made in the editor
SetBlockSelection(range) ==
  /\ range # blockRange
  /\ blockRange' = range
  /\ op' = Op("selectBlocks", 0, FALSE)
  /\ UNCHANGED findVars
  /\ UNCHANGED rulerVars
  /\ UNCHANGED <<build, documentTitle, lastSaved, storage, selectedText, isGenerating,
                 transforms, indents, measure>>

IndentPastMax ==
  /\ indents' = [id \in DOMAIN indents |->
                   IF id \in IndentTargets /\ indents[id] <= MaxIndent
                   THEN indents[id] + 1 ELSE indents[id]]
  /\ op' = Op("indent", 0, FALSE)
  /\ UNCHANGED findVars
  /\ UNCHANGED rulerVars
  /\ UNCHANGED <<build, documentTitle, lastSaved, storage, selectedText, isGenerating,
                 transforms, blockRange, measure>>

\* editor.chain().focus().indent().run()
Indent ==
  /\ indents' = [id \in DOMAIN indents |->
                   IF id \in IndentTargets /\ indents[id] < MaxIndent
                   THEN indents[id] + 1 ELSE indents[id]]
  /\ op' = Op("indent", 0, FALSE)
  /\ UNCHANGED findVars
  /\ UNCHANGED rulerVars
  /\ UNCHANGED <<build, documentTitle, lastSaved, storage, selectedText, isGenerating,
                 transforms, blockRange, measure>>

\* editor.chain().focus().outdent().run()
Outdent ==
  /\ indents' = [id \in DOMAIN indents |->
                   IF id \in IndentTargets /\ indents[id] > MinIndent
                   THEN indents[id] - 1 ELSE indents[id]]
  /\ op' = Op("outdent", 0, FALSE)
  /\ UNCHANGED findVars
  /\ UNCHANGED rulerVars
  /\ UNCHANGED <<build, documentTitle, lastSaved, storage, selectedText, isGenerating,
                 transforms, blockRange, measure>>

NextIndent ==
  \/ \E range \in BlockRanges : SetBlockSelection(range)
  \/ Indent
  \/ Outdent

SpecIndent == InitRuler /\ [][NextIndent]_vars

\* ---------------------------------------------------------- AI transform
\* Text is a sequence of tokens: a character, or a word of a fixed text the
\* transform inserts (such a word holds no white space).
MaxAIDocLen == 3    \* transform: longest document typed into
MaxSelPos == 4      \* transform: the selections made lie in 1..MaxSelPos

AIChars == {"a", " "}
AIDocs == {<<"a", " ", "A">>, <<"a", "A">>, <<" ", "a">>}
AIActions == {"rewrite", "expand", "summarize", "grammar", "tone"}

ExpandText ==
  <<"\n", "\n", "Furthermore,", " ", "this", " ", "concept", " ", "extends", " ",
    "into", " ", "several", " ", "related", " ", "areas", " ", "that", " ",
    "deserve", " ", "exploration.", " ", "The", " ", "implications", " ", "are",
    " ", "far-reaching", " ", "and", " ", "touch", " ", "upon", " ", "multiple",
    " ", "disciplines.">>

\* text.split(' ')
RECURSIVE SplitWords(_)
SplitWords(text) ==
  IF \A i \in 1..Len(text) : text[i] # " " THEN <<text>>
  ELSE LET k == CHOOSE i \in 1..Len(text) :
                  text[i] = " " /\ \A j \in 1..(i - 1) : text[j] # " "
       IN  <<SubSeq(text, 1, k - 1)>> \o SplitWords(SubSeq(text, k + 1, Len(text)))

\* words.join(' ')
RECURSIVE JoinWords(_)
JoinWords(words) ==
  IF words = <<>> THEN <<>>
  ELSE IF Len(words) = 1 THEN words[1]
  ELSE words[1] \o <<" ">> \o JoinWords(Tail(words))

\* words.reverse()
ReverseWords(words) == [i \in 1..Len(words) |-> words[Len(words) + 1 - i]]

\* \s of a regular expression
IsWhiteSpace(c) == c \in {" ", "\n"}

\* text.replace(/\s+/g, ' ')
RECURSIVE CollapseWhiteSpace(_)
CollapseWhiteSpace(text) ==
  IF text = <<>> THEN <<>>
  ELSE IF IsWhiteSpace(text[1])
  THEN IF Len(text) > 1 /\ IsWhiteSpace(text[2])
       THEN CollapseWhiteSpace(Tail(text))
       ELSE <<" ">> \o CollapseWhiteSpace(Tail(text))
  ELSE <<text[1]>> \o CollapseWhiteSpace(Tail(text))

\* text.trim()
RECURSIVE TrimText(_)
TrimText(text) ==
  IF text = <<>> THEN <<>>
  ELSE IF IsWhiteSpace(text[1]) THEN TrimText(Tail(text))
  ELSE IF IsWhiteSpace(text[Len(text)]) THEN TrimText(SubSeq(text, 1, Len(text) - 1))
  ELSE text

\* c.toUpperCase() of the first token of a text
ToUpperCase(c) == IF c = "a" THEN "A" ELSE IF c = "this" THEN "This" ELSE c

\* transformText(text, action)
TransformText(text, action) ==
  IF action = "rewrite"
  THEN <<"[Rewritten]", " ">> \o JoinWords(ReverseWords(SplitWords(text)))
  ELSE IF action = "expand"
  THEN text \o ExpandText
  ELSE IF action = "summarize"
  THEN LET words == SplitWords(text)
       IN  JoinWords(SubSeq(words, 1, (Len(words) + 1) \div 2)) \o <<".", ".", ".">>
  ELSE IF action = "grammar"
  THEN (IF text = <<>> THEN <<>> ELSE <<ToUpperCase(text[1])>>)
       \o TrimText(CollapseWhiteSpace(IF text = <<>> THEN <<>> ELSE Tail(text)))
       \o <<".">>
  ELSE IF action = "tone"
  THEN <<"[Tone", " ", "adjusted]", " ">> \o text
  ELSE text

\* editor.state.doc.textBetween(from, to, ' ') within the paragraph
TextBetween(d, from, to) == SubSeq(d, from, to - 1)

\* a selection made in the editor, then the selectionUpdate listener
SelectText(from, to) ==
  /\ from <= to
  /\ to <= MaxPos(doc)
  /\ [from |-> from, to |-> to] # selection
  /\ selection' = [from |-> from, to |-> to]
  /\ selectedText' = TextBetween(doc, from, to)
  /\ op' = Op("select", 0, FALSE)
  /\ UNCHANGED <<doc, open, searchTerm, replaceTerm, results, currentIndex,
                 caseSensitive, timers>>
  /\ UNCHANGED rulerVars
  /\ UNCHANGED <<build, documentTitle, lastSaved, storage, isGenerating, transforms,
                 indents, blockRange, measure>>

\* a character typed in the editor: it takes the place of the selection and
\* leaves the caret behind it
TypeText(c) ==
  /\ Len(doc) < MaxAIDocLen
  /\ doc' = InsertContent(doc, selection, <<c>>)
  /\ selection' = [from |-> selection.from + 1, to |-> selection.from + 1]
  /\ selectedText' = <<>>
  /\ op' = Op("type", 0, FALSE)
  /\ UNCHANGED <<open, searchTerm, replaceTerm, results, currentIndex,
                 caseSensitive, timers>>
  /\ UNCHANGED rulerVars
  /\ UNCHANGED <<build, documentTitle, lastSaved, storage, isGenerating, transforms,
                 indents, blockRange, measure>>

\* onClick of a Transform button of the sidebar, up to the await.  The
\* pending call keeps selectedText and action; from and to (the selection at
\* this moment) are kept for the properties only.
HandleTransform(action) ==
  /\ selectedText # <<>>
  /\ ~isGenerating
  /\ Len(doc) <= MaxAIDocLen
  /\ isGenerating' = TRUE
  /\ transforms' = Append(transforms, [text |-> selectedText, action |-> action,
                                       from |-> selection.from, to |-> selection.to])
  /\ op' = Op("transform", 0, FALSE)
  /\ UNCHANGED findVars
  /\ UNCHANGED rulerVars
  /\ UNCHANGED <<build, documentTitle, lastSaved, storage, selectedText,
                 indents, blockRange, measure>>

\* onTransformText(action, result) of the component that runs:
\* handleAITransform (part_004) or handleTransformText (part_005)
OnTransformText(result) ==
  IF build = "part_005" /\ selection.from = selection.to
  THEN UNCHANGED <<doc, selection, selectedText>>
  ELSE /\ doc' = InsertContent(doc, selection, result)
       /\ selection' = [from |-> selection.from + Len(result),
                        to |-> selection.from + Len(result)]
       /\ selectedText' = <<>>

\* the timeout of the oldest pending handleTransform is over: the rest of it
TransformDone ==
  /\ transforms # <<>>
  /\ LET t == Head(transforms)
     IN  OnTransformText(TransformText(t.text, t.action))
  /\ transforms' = Tail(transforms)
  /\ isGenerating' = FALSE
  /\ op' = Op("transformDone", 0, FALSE)
  /\ UNCHANGED <<open, searchTerm, replaceTerm, results, currentIndex,
                 caseSensitive, timers>>
  /\ UNCHANGED rulerVars
  /\ UNCHANGED <<build, documentTitle, lastSaved, storage, indents, blockRange, measure>>

InitAI ==
  /\ RulerInit
  /\ \E b \in Builds : AppState(b)
  /\ doc \in AIDocs
  /\ selection = [from |-> MinPos, to |-> MinPos]
  /\ open = FALSE
  /\ searchTerm = <<>>
  /\ replaceTerm = <<>>
  /\ results = <<>>
  /\ currentIndex = 0
  /\ caseSensitive = FALSE
  /\ timers = <<>>
  /\ op = Other

NextAI ==
  \/ \E from, to \in 1..MaxSelPos : SelectText(from, to)
  \/ \E c \in AIChars : TypeText(c)
  \/ \E action \in AIActions : HandleTransform(action)
  \/ TransformDone

SpecAI == InitAI /\ [][NextAI]_vars

TypeOK ==
  /\ open \in BOOLEAN
  /\ caseSensitive \in BOOLEAN
  /\ currentIndex \in 0..(MaxDocLen + MaxBuiltLen)
  /\ Len(timers) <= MaxTimers


\* ---------------------------------------------------------------- properties
Span(m) == [from |-> m.from, to |-> m.to]

\* the document rebuilt left to right: the text before each span, the
\* replacement in its place, the text behind the last span
RECURSIVE Rebuild(_, _, _, _)
Rebuild(d, spans, text, cursor) ==
  IF spans = <<>> THEN SubSeq(d, cursor, Len(d))
  ELSE SubSeq(d, cursor, Head(spans).from - 1) \o text
       \o Rebuild(d, Tail(spans), text, Head(spans).to)

\* C1: replaceAll on the current match list yields the document in which
\* every matched span is replaced by the replacement and every character
\* outside the spans is unchanged, whatever the length of the replacement.
C1_ReplaceAllRewritesEverySpan ==
  [][(op'.name = "replaceAll" /\ Len(results) > 0 /\ Fresh)
       => doc' = Rebuild(doc, results, replaceTerm, 1)]_vars

C1_Witness ==
  /\ op.name = "replaceAll"
  /\ op.fresh
  /\ op.n >= 2
  /\ Len(replaceTerm) > Len(searchTerm)

Lower(c) == IF c = "A" THEN "a" ELSE c

\* the term occurs in d as a literal string at content index p
OccursAt(d, term, cs, p) ==
  /\ p + Len(term) - 1 <= Len(d)
  /\ \A j \in 1..Len(term) :
       /\ d[p + j - 1] # BR
       /\ IF cs THEN d[p + j - 1] = term[j] ELSE Lower(d[p + j - 1]) = Lower(term[j])

ScanOK(d, term, cs, rs) ==
  /\ \A i \in 1..Len(rs) :
       /\ rs[i].from < rs[i].to
       /\ rs[i].to - rs[i].from = Len(term)
       /\ OccursAt(d, term, cs, rs[i].from)
  /\ \A i \in 1..(Len(rs) - 1) : rs[i].to <= rs[i + 1].from
  /\ \A p \in 1..Len(d) :
       OccursAt(d, term, cs, p) => \E i \in 1..Len(rs) : rs[i].from <= p /\ p < rs[i].to

\* C2: for a non-empty term the match list is in ascending document order,
\* its spans do not overlap, each has from < to and covers the term as a
\* literal string (exactly if caseSensitive, ignoring case otherwise), and
\* every occurrence is in the list or overlaps an earlier listed match.
C2_MatchListIsGreedyLiteralScan ==
  (op.name \in {"other", "timer"} /\ searchTerm # <<>>)
    => ScanOK(doc, searchTerm, caseSensitive, results)

C2_Witness ==
  /\ op.name = "other"
  /\ ~caseSensitive
  /\ Len(results) >= 2
  /\ \E i \in 1..Len(results) :
       SubSeq(doc, results[i].from, results[i].to - 1) # searchTerm
  /\ doc[results[1].to] = BR

\* C3: either the match list is empty or currentIndex is a valid index
\* into it, in every state of the search session.
C3_CurrentIndexValid ==
  Len(results) = 0 \/ (0 <= currentIndex /\ currentIndex < Len(results))

C3_Witness ==
  /\ Len(results) >= 2
  /\ currentIndex = Len(results) - 1
  /\ timers # <<>>

\* C4: goToNext and goToPrevious step currentIndex cyclically through a
\* non-empty match list and leave currentIndex and the selection alone
\* when the list is empty.
C4_CyclicNavigation ==
  [][/\ op'.name = "goToNext" =>
          IF Len(results) = 0
          THEN currentIndex' = currentIndex /\ selection' = selection
          ELSE currentIndex' = (IF currentIndex = Len(results) - 1 THEN 0
                                ELSE currentIndex + 1)
     /\ op'.name = "goToPrevious" =>
          IF Len(results) = 0
          THEN currentIndex' = currentIndex /\ selection' = selection
          ELSE currentIndex' = (IF currentIndex = 0 THEN Len(results) - 1
                                ELSE currentIndex - 1)]_vars

C4_Witness ==
  /\ op.name = "goToNext"
  /\ op.n >= 3
  /\ currentIndex = 0

\* C5: after goToNext or goToPrevious on a non-empty match list the
\* selection is exactly the span stored at the new currentIndex.
C5_SelectionIsCurrentSpan ==
  [][(op'.name \in {"goToNext", "goToPrevious"} /\ Len(results) > 0)
       => selection' = Span(results'[currentIndex' + 1])]_vars

\* C6: replaceOne replaces the text of the span at currentIndex (as far as
\* the span lies in the document) by the replacement and leaves every
\* character outside that span unchanged.
C6_ReplaceOneRewritesCurrentSpan ==
  [][(op'.name = "replaceOne" /\ Len(results) > 0)
       => LET m == results[currentIndex + 1]
              f == Min(m.from, MaxPos(doc))
              t == Min(m.to, MaxPos(doc))
          IN  doc' = SubSeq(doc, 1, f - 1) \o replaceTerm \o SubSeq(doc, t, Len(doc))]_vars

C6_Witness ==
  /\ op.name = "replaceOne"
  /\ op.n = 1
  /\ op.fresh
  /\ currentIndex >= 1
  /\ replaceTerm # <<>>

\* the match list a scan of d for the term yields
Search(d, term, cs) == IF term = <<>> THEN <<>> ELSE Matches(d, term, cs)

\* C7: the rescan that follows a replace leaves the match list equal to a
\* search of the edited document for the session's current term and flag.
C7_RescanMatchesSession ==
  [][op'.name = "timer" => results' = Search(doc', searchTerm', caseSensitive')]_vars

\* C8: whenever the dialog is open and no rescan is pending, the match
\* list equals a search of the current document for the current term and flag.
C8_MatchListDerived ==
  (open /\ timers = <<>>) => results = Search(doc, searchTerm, caseSensitive)

\* C9: findMatches with an empty search term yields an empty match list and
\* changes neither the document nor the selection.
C9_EmptyTermYieldsNoMatches ==
  [][(op'.name = "timer" /\ op'.n = 0)
       => /\ results' = <<>>
          /\ doc' = doc
          /\ selection' = selection]_vars

C9_Witness ==
  /\ op.name = "timer"
  /\ op.n = 0
  /\ searchTerm = <<>>
  /\ open

\* C10: replaceOne and replaceAll on an empty match list change nothing:
\* document, selection and session stay and no rescan is scheduled.
C10_ReplaceOnEmptyListIsNoOp ==
  [][(op'.name \in {"replaceOne", "replaceAll"} /\ Len(results) = 0)
       => UNCHANGED <<doc, selection, open, searchTerm, replaceTerm, results,
                      currentIndex, caseSensitive, timers>>]_vars

C10_Witness ==
  /\ op.name = "replaceAll"
  /\ op.n = 0
  /\ Len(results) = 0
  /\ searchTerm # <<>>


\* C11: while the dialog is open, Enter without Shift moves to the next match
\* cyclically and selects it, Shift+Enter moves to the previous one, and
\* Escape closes the session; while the dialog is closed, none of these keys
\* changes currentIndex, the match list, the selection or the open flag.
C11_KeyboardContract ==
  [][/\ (open /\ op'.name = "Enter") =>
          /\ open' /\ results' = results
          /\ IF results = <<>>
             THEN UNCHANGED <<currentIndex, selection>>
             ELSE /\ currentIndex' = (IF currentIndex + 1 = Len(results) THEN 0
                                      ELSE currentIndex + 1)
                  /\ selection' = SetTextSelection(doc, results[currentIndex' + 1].from,
                                                   results[currentIndex' + 1].to)
     /\ (open /\ op'.name = "Shift+Enter") =>
          /\ open' /\ results' = results
          /\ IF results = <<>>
             THEN UNCHANGED <<currentIndex, selection>>
             ELSE /\ currentIndex' = (IF currentIndex = 0 THEN Len(results) - 1
                                      ELSE currentIndex - 1)
                  /\ selection' = SetTextSelection(doc, results[currentIndex' + 1].from,
                                                   results[currentIndex' + 1].to)
     /\ (open /\ op'.name = "Escape") => ~open'
     /\ (~open /\ op'.name \in {"Enter", "Shift+Enter", "Escape"}) =>
          UNCHANGED <<currentIndex, results, selection, open>>
    ]_vars

\* Enter arrived at the closed dialog whose match list a late rescan had
\* filled, and left it alone
C11_Witness ==
  /\ ~open
  /\ op.name = "Enter"
  /\ Len(results) > 0


\* number of tab stops stored with the offset t
Count(stops, t) == Cardinality({i \in 1..Len(stops) : stops[i] = t})

\* the multiples of a quarter inch up to the page width
Quarters == {25 * k : k \in 0..(pageSize.width \div 25 + 1)}

\* the pointer offset px as a length from the left margin: rel.num / rel.den
\* hundredths of an inch
FromLeftMargin(px) == [num |-> px * 625 - margins.left * 6 * zoom, den |-> 6 * zoom]

\* strictly inside (0, pageWidth - leftMargin - rightMargin)
InsideBand(rel) ==
  /\ rel.num > 0
  /\ rel.num < (pageSize.width - margins.left - margins.right) * rel.den

\* C12: with no drag active, a ruler click strictly inside the content band
\* adds exactly one tab stop, a multiple of 0.25 in nearest to the clicked
\* offset from the left margin, and keeps every other stop; a click outside
\* the band leaves the tab stops unchanged.
C12_RulerClickAddsSnappedTabStop ==
  [][\A px \in PointerXs :
       (dragging = Null /\ op'.name = "rulerClick" /\ HandleRulerClick(px)) =>
         LET rel == FromLeftMargin(px)
         IN  IF InsideBand(rel)
             THEN \E v \in Quarters :
                    /\ 2 * Abs(v * rel.den - rel.num) <= 25 * rel.den
                    /\ Len(tabStops') = Len(tabStops) + 1
                    /\ \A t \in Quarters :
                         Count(tabStops', t) = Count(tabStops, t) + (IF t = v THEN 1 ELSE 0)
             ELSE tabStops' = tabStops
    ]_vars

\* the first click, 1.385 in right of the left margin, has stored 1.5 in
C12_Witness ==
  /\ op.name = "rulerClick"
  /\ tabStops = <<50, 100, 150, 150, 200, 250, 300, 350, 400>>


\* C13: after a pointer move while the left margin is dragged, the stored
\* left margin is a multiple of 0.25 in with
\* 0.25 <= leftMargin <= pageWidth - rightMargin - 1; the same for the right
\* margin with the two margins swapped.
C13_MarginDragClamped ==
  [][op'.name = "mouseMove" =>
       /\ dragging = "left" =>
            /\ margins'.left % 25 = 0
            /\ 25 <= margins'.left
            /\ margins'.left <= pageSize.width - margins.right - 100
       /\ dragging = "right" =>
            /\ margins'.right % 25 = 0
            /\ 25 <= margins'.right
            /\ margins'.right <= pageSize.width - margins.left - 100
    ]_vars


\* C14: in every state reached by margin drags, Page Setup applies and zoom
\* changes, leftMargin + rightMargin < pageWidth.
C14_MarginsLeaveContent == margins.left + margins.right < pageSize.width


\* C15: in every state reached from the initial state, every stored tab stop
\* t satisfies 0 < t < pageWidth - leftMargin - rightMargin.
C15_TabStopsInsideBand ==
  \A i \in 1..Len(tabStops) :
    /\ 0 < tabStops[i]
    /\ tabStops[i] < pageSize.width - margins.left - margins.right


\* C16: in every state reached by ruler clicks and tab-stop drag moves, also
\* in the middle of a drag, no two stored tab stops have the same value.
C16_TabStopsUnique ==
  \A i, j \in 1..Len(tabStops) : i # j => tabStops[i] # tabStops[j]


\* C17: while a tab stop is dragged, a pointer move whose offset from the left
\* margin is outside the content band leaves the tab stops unchanged; a move
\* inside the band takes away the dragged stop (the one at dragTabIndex) and
\* stores the offset snapped to 0.25 in, and every other stop is still
\* stored with its value.
C17_TabDragMovesOnlyDraggedStop ==
  [][\A px \in PointerXs :
       (dragging = "tab" /\ dragTabIndex # <<>> /\ op'.name = "mouseMove"
          /\ HandleMouseMove(px)) =>
         LET rel == FromLeftMargin(px)
             dragged == TabStopAt(tabStops, dragTabIndex[1])
         IN  IF InsideBand(rel)
             THEN \E v \in Quarters :
                    /\ 2 * Abs(v * rel.den - rel.num) <= 25 * rel.den
                    /\ \A t \in Quarters :
                         Count(tabStops', t) =
                           Count(tabStops, t) - (IF dragged = <<t>> THEN 1 ELSE 0)
                                              + (IF t = v THEN 1 ELSE 0)
             ELSE tabStops' = tabStops
    ]_vars


\* C18: a pointer-up or pointer-leave on the ruler, in any drag state, leaves
\* the drag state idle (dragging and dragTabIndex both null); while idle a
\* pointer move changes neither margins nor tab stops, and only a drag start
\* ends idleness; the release is possible in every drag state.
C18_DragEndResets ==
  /\ [][/\ op'.name \in {"mouseUp", "mouseLeave"} =>
            (dragging' = Null /\ dragTabIndex' = <<>>)
        /\ (dragging = Null /\ op'.name = "mouseMove") =>
            UNCHANGED <<margins, tabStops, dragging, dragTabIndex>>
        /\ (dragging = Null /\ dragging' # Null) =>
            op'.name \in {"marginDragStart", "tabDragStart"}
       ]_vars
  /\ [](dragging # Null =>
          ENABLED (HandleMouseUp("mouseUp") /\ dragging' = Null /\ dragTabIndex' = <<>>))

\* a margin was dragged, the pointer was released, and a later move found
\* the ruler idle
C18_Witness ==
  /\ op.name = "mouseMove"
  /\ dragging = Null
  /\ dragTabIndex = <<>>
  /\ margins.left = 250


\* C19: after any sequence of drag-start, move and end events the drag state
\* is one of idle, left margin, right margin or tab stop, and a tab index is
\* recorded (dragTabIndex not null) if and only if the target is a tab stop.
C19_DragStateWellFormed ==
  /\ dragging \in {Null, "left", "right", "tab"}
  /\ dragTabIndex # <<>> <=> dragging = "tab"


\* C20: a ruler click that arrives while a drag is in progress changes
\* nothing: tab stops, margins and drag state stay as they are.
C20_ClickWhileDraggingIgnored ==
  [][(dragging # Null /\ op'.name = "rulerClick") =>
       UNCHANGED <<tabStops, margins, dragging, dragTabIndex>>
    ]_vars

\* a click arrived in the middle of the drag of the first tab stop
C20_Witness ==
  /\ op.name = "rulerClick"
  /\ dragging = "tab"
  /\ dragTabIndex = <<0>>
  /\ Len(tabStops) > 0


\* C21: a double click on the handle of the tab stop at index i removes
\* exactly that stop and leaves every other stop stored with its value.
C21_DoubleClickRemovesOneStop ==
  [][\A index \in 0..(MaxHandle - 1) :
       (op'.name = "tabDoubleClick" /\ HandleTabDoubleClick(index)) =>
         /\ Len(tabStops') = Len(tabStops) - 1
         /\ \A t \in Quarters :
              Count(tabStops', t) =
                Count(tabStops, t) - (IF t = tabStops[index + 1] THEN 1 ELSE 0)
    ]_vars


\* C26: throughout a tab drag dragTabIndex is a valid index of the tab-stop
\* list, and after a move that stores the dragged stop at a new offset (the
\* list being sorted again) tabStops[dragTabIndex] is that dragged stop.
C26_DragIndexFollowsDraggedStop ==
  /\ [](dragging = "tab" => (dragTabIndex # <<>> /\ dragTabIndex[1] < Len(tabStops)))
  /\ [][\A px \in PointerXs :
          (dragging = "tab" /\ dragTabIndex # <<>> /\ op'.name = "mouseMove"
             /\ HandleMouseMove(px) /\ InsideBand(FromLeftMargin(px))) =>
            /\ dragTabIndex' # <<>>
            /\ dragTabIndex'[1] < Len(tabStops')
            /\ tabStops'[dragTabIndex'[1] + 1] =
                 SnapQuarter(RatSub(PxToInches(Rat(px), zoom), Rat(margins.left)))
       ]_vars


\* C27: in every reachable state the tab-stop list is sorted in ascending
\* order.
C27_TabStopsSorted ==
  \A i \in 1..(Len(tabStops) - 1) : tabStops[i] <= tabStops[i + 1]

\* a click stored a stop at 1.75 in, between the stops at 1.5 in and 2 in
C27_Witness ==
  /\ op.name = "rulerClick"
  /\ \E i \in 2..(Len(tabStops) - 1) :
       /\ tabStops[i] = 175
       /\ tabStops[i - 1] = 150
       /\ tabStops[i + 1] = 200


\* C24: while the find/replace dialog is closed its search term and its
\* replacement are empty, its match list is empty and its current index is
\* 0, and no step of the dialog (a delayed rescan included) moves the
\* editor's selection.
C24_ClosedDialogHoldsNothing ==
  /\ [](~open => /\ searchTerm = <<>>
                 /\ replaceTerm = <<>>
                 /\ results = <<>>
                 /\ currentIndex = 0)
  /\ [][(~open /\ op'.name = "timer") => selection' = selection]_vars


\* the span is an occurrence of the session's search term in the document
RealMatch(m) ==
  /\ searchTerm # <<>>
  /\ m.to - m.from = Len(searchTerm)
  /\ OccursAt(doc, searchTerm, caseSensitive, m.from)

\* C25: a replace edits only spans that are occurrences of the search term
\* in the document at the moment of the edit: the span at currentIndex for
\* replace, every span of the match list for replace all.
C25_ReplaceHitsRealMatches ==
  [][/\ (op'.name = "replaceOne" /\ Len(results) > 0) =>
          RealMatch(results[currentIndex + 1])
     /\ (op'.name = "replaceAll" /\ Len(results) > 0) =>
          \A i \in 1..Len(results) : RealMatch(results[i])
    ]_vars


\* C22: inchesToPx(v) is v * 96 * (zoom / 100) pixels, and for every length v
\* in [0, pageWidth] and every zoom in [50, 200] pxToInches(inchesToPx(v))
\* is v again.  (v is in hundredths of an inch, and 96 / 10000 = 6 / 625.)
C22_UnitConversionRoundTrip ==
  op.name = "measure" =>
    /\ op.n \in 50..200
    /\ RatEq(measure.px, [num |-> measure.inches * 6 * op.n, den |-> 625])
    /\ RatEq(measure.back, Rat(measure.inches))

\* a length that is no multiple of a ruler mark was converted at a zoom that
\* is no preset
C22_Witness ==
  /\ op.name = "measure"
  /\ op.n = 65
  /\ measure.inches = 333
  /\ measure.px.num # 0


\* C28: the stored zoom is always in 50..200: a request below 50 stores 50,
\* a request above 200 stores 200, any other request is stored as it is.
C28_ZoomInRange ==
  /\ [](zoom >= 50 /\ zoom <= 200)
  /\ [][op'.name = "zoomChange" =>
          zoom' = (IF op'.n < 50 THEN 50 ELSE IF op'.n > 200 THEN 200 ELSE op'.n)
       ]_vars

\* the - button was pressed at zoom 55: the request for 45 stored 50
C28_Witness ==
  /\ op.name = "zoomChange"
  /\ op.n = 45
  /\ zoom = 50


\* C23: every Save overwrites the item 'text-editor-document' of the local
\* storage with the JSON text of {title, html, savedAt}, the title being the
\* current document title and the html the editor's current HTML; no other
\* step writes the storage, so the stored snapshot is that of the last Save.
C23_SaveStoresSnapshot ==
  [][IF op'.name = "save"
     THEN /\ DOMAIN storage' = {StorageKey}
          /\ JSONParse(storage'[StorageKey]) \in [{"title", "html", "savedAt"} -> 1..3]
          /\ JSONMember(storage'[StorageKey], "title") = documentTitle
          /\ JSONMember(storage'[StorageKey], "html") = GetHTML(doc)
          /\ JSONMember(storage'[StorageKey], "savedAt") \in SaveTimes
     ELSE storage' = storage
    ]_vars


\* where each node with an indent attribute lies in the document: the
\* position before it and the position behind it
RECURSIVE Extents(_, _)
Extents(content, base) ==
  IF content = <<>> THEN {}
  ELSE LET node == Head(content)
       IN  {[id |-> node.id, before |-> base, behind |-> base + NodeSize(node)]}
           \cup Extents(node.content, base + 1)
           \cup Extents(Tail(content), base + NodeSize(node))

\* the node holds a part of the selection (or the caret)
InSelection(id) ==
  \E e \in Extents(BlockDoc, 0) :
    /\ e.id = id
    /\ e.before < blockRange.to
    /\ e.behind > blockRange.from

\* C29: every paragraph, heading and list item has an integer indent level
\* in 0..8; indent raises by exactly 1 the level of each such node of the
\* selection that is below 8, outdent lowers by exactly 1 each one above 0,
\* and every other node keeps its level.
C29_IndentLevelsBounded ==
  /\ [](\A id \in DOMAIN indents : indents[id] \in 0..8)
  /\ [][/\ op'.name = "indent" =>
             \A id \in DOMAIN indents :
               indents'[id] = IF InSelection(id) /\ indents[id] < 8
                              THEN indents[id] + 1 ELSE indents[id]
        /\ op'.name = "outdent" =>
             \A id \in DOMAIN indents :
               indents'[id] = IF InSelection(id) /\ indents[id] > 0
                              THEN indents[id] - 1 ELSE indents[id]
       ]_vars

\* with text selected from the heading into the list, indent was applied to
\* a heading already at level 8 and to a list item and its paragraph below 8
C29_Witness ==
  /\ op.name = "indent"
  /\ blockRange = [from |-> 6, to |-> 10]
  /\ indents[2] = 8
  /\ indents[3] = 5
  /\ indents[4] = 5
  /\ indents[1] = 1


\* C30: when a transform completes, the range of the document it replaces
\* is the range that was selected when it was invoked, and the text put
\* there is the transform of the text selected then, whatever selections
\* and edits were made during the delay.
C30_TransformReplacesInvokedRange ==
  [][op'.name = "transformDone" =>
       LET t == Head(transforms)
       IN  doc' = SubSeq(doc, 1, t.from - 1)
                    \o TransformText(t.text, t.action)
                    \o SubSeq(doc, t.to, Len(doc))
    ]_vars

====
